---- MODULE Spec2Model ----
(***************************************************************************)
(* Model of src/contexts/solana-connection-config.tsx:                     *)
(*   - SolanaConnectionConfigProvider: the persisted endpoint / slippage   *)
(*     settings, the two memoised Connection handles and the four          *)
(*     keep-alive subscription effects;                                    *)
(*   - sendTransaction and getErrorForTransaction.                         *)
(* React (useMemo, useEffect, batching of state updates), the RPC          *)
(* Connection, the wallet and notify are collaborators: they are modelled  *)
(* by the calls made on them and by every answer they can give.            *)
(***************************************************************************)
EXTENDS Integers, Sequences, FiniteSets, TLC

\* ------------------------------------------------------------------ bounds
\* pairs of Connection handles (connection, sendConnection) ever created
MaxGenerations == 3
\* additional signers passed to sendTransaction
MaxSigners == 2
\* pieces a generated log message is built from
MaxPieces == 3
\* log messages in a fetched transaction's meta
MaxLogs == 2

VARIABLES
    \* ---- provider
    envCluster,        \* process.env.REACT_APP_SOLANA_CLUSTER ("" when unset)
    storage,           \* local storage: key -> <<>> (absent) or <<value>>
    mounted,           \* the provider is mounted
    endpoint,          \* state of useLocalStorage('connectionEndpts')
    slippage,          \* state of useLocalStorage('slippage'): a string (seq of chars)
    needRender,        \* a state update is waiting for a render
    memoConnection,    \* useMemo cell of connection:     [set, dep, value]
    memoSendConnection,\* useMemo cell of sendConnection: [set, dep, value]
    handles,           \* every Connection created by the provider, by index
    effects,           \* the four useEffect cells
    effectsPending,    \* a commit's passive effects are not flushed yet
    ctx,               \* the context value of the last render
    badCancel,         \* ghost: a listener was removed twice or on another handle
    callSuperseded,    \* ghost: handles current at a setEndpoint call that changed the URL
    renderSuperseded,  \* ghost: handles current at a render that saw a changed URL
    lastSetSlippage,   \* ghost: <<>> or <<v>>, v the argument of the last setSlippage call
    \* ---- sendTransaction
    pc,                \* position of the running call
    args,              \* [wallet, signers, awaitConfirmation]
    transaction,       \* the Transaction object being built
    trace,             \* calls made so far on the collaborators, in order
    txid,              \* local txid
    status,            \* local status
    outcome,           \* how the call ended: [kind, ...]
    submitted,         \* ghost: the id sendRawTransaction returned
    chainFate,         \* ghost: what happens to the submitted transaction on chain
    fetched,           \* ghost: the answer of getParsedConfirmedTransaction
    \* ---- getErrorForTransaction's extraction, alone
    parsedTx,          \* input: the parsed transaction
    errors             \* output: <<>> before the run, <<list>> after

providerVars == <<envCluster, storage, mounted, endpoint, slippage, needRender,
                  memoConnection, memoSendConnection, handles, effects,
                  effectsPending, ctx, badCancel, callSuperseded,
                  renderSuperseded, lastSetSlippage>>
sendVars == <<pc, args, transaction, trace, txid, status, outcome, submitted,
              chainFate, fetched>>
errVars == <<parsedTx, errors>>
vars == <<providerVars, sendVars, errVars>>

\* ------------------------------------------------------------ JS values
Null == "null"

\* A JS number, as far as slippage needs it: a multiple of 0.01 (h hundredths),
\* NaN, or +/-Infinity (h = 1 / -1).
Num(h) == [kind |-> "finite", h |-> h]
NaN == [kind |-> "nan", h |-> 0]

DigitChars == <<"0", "1", "2", "3", "4", "5", "6", "7", "8", "9">>
IsDigit(c) == \E i \in 1..10 : DigitChars[i] = c
DigitVal(c) == (CHOOSE i \in 1..10 : DigitChars[i] = c) - 1

RECURSIVE DigitsOf(_)
DigitsOf(n) == IF n < 10 THEN <<DigitChars[n + 1]>>
               ELSE DigitsOf(n \div 10) \o <<DigitChars[(n % 10) + 1]>>

InfinityChars == <<"I", "n", "f", "i", "n", "i", "t", "y">>

\* val.toString()
NumberToString(n) ==
    IF n.kind = "nan" THEN <<"N", "a", "N">>
    ELSE IF n.kind = "inf" THEN (IF n.h < 0 THEN <<"-">> ELSE <<>>) \o InfinityChars
    ELSE LET a    == IF n.h < 0 THEN -n.h ELSE n.h
             frac == a % 100
             d1   == frac \div 10
             d2   == frac % 10
         IN  (IF n.h < 0 THEN <<"-">> ELSE <<>>)
             \o DigitsOf(a \div 100)
             \o (IF frac = 0 THEN <<>>
                 ELSE <<".", DigitChars[d1 + 1]>>
                      \o (IF d2 = 0 THEN <<>> ELSE <<DigitChars[d2 + 1]>>))

\* the longest run of decimal digits of s starting at position i
RECURSIVE DigitRun(_, _)
DigitRun(s, i) == IF i <= Len(s) /\ IsDigit(s[i]) THEN <<s[i]>> \o DigitRun(s, i + 1)
                  ELSE <<>>

RECURSIVE DigitsValue(_)
DigitsValue(ds) == IF ds = <<>> THEN 0
                   ELSE 10 * DigitsValue(SubSeq(ds, 1, Len(ds) - 1)) + DigitVal(ds[Len(ds)])

RECURSIVE SkipSpaces(_, _)
SkipSpaces(s, i) == IF i <= Len(s) /\ s[i] \in {" ", "\n"} THEN SkipSpaces(s, i + 1) ELSE i

StartsWithAt(s, i, p) == i + Len(p) - 1 <= Len(s) /\ SubSeq(s, i, i + Len(p) - 1) = p

\* parseInt's reading of s: it stops at the decimal point
ParseIntOnly(s) ==
    LET i0   == SkipSpaces(s, 1)
        neg  == i0 <= Len(s) /\ s[i0] = "-"
        i1   == IF i0 <= Len(s) /\ s[i0] \in {"-", "+"} THEN i0 + 1 ELSE i0
        ip   == DigitRun(s, i1)
    IN  IF ip = <<>> THEN NaN
        ELSE Num((IF neg THEN -1 ELSE 1) * 100 * DigitsValue(ip))

\* parseFloat(s): leading white space, an optional sign, then Infinity or the
\* longest decimal literal (digits, optionally a point and digits); NaN when
\* there is none. Fractions are read to two places (the numbers of the model).
ParseFloat(s) ==
    LET i0   == SkipSpaces(s, 1)
        neg  == i0 <= Len(s) /\ s[i0] = "-"
        i1   == IF i0 <= Len(s) /\ s[i0] \in {"-", "+"} THEN i0 + 1 ELSE i0
        ip   == DigitRun(s, i1)
        i2   == i1 + Len(ip)
        fp   == IF i2 <= Len(s) /\ s[i2] = "." THEN DigitRun(s, i2 + 1) ELSE <<>>
        f2   == SubSeq(fp \o <<"0", "0">>, 1, 2)
        sign == IF neg THEN -1 ELSE 1
    IN  IF StartsWithAt(s, i1, InfinityChars) THEN [kind |-> "inf", h |-> sign]
        ELSE IF ip = <<>> /\ fp = <<>> THEN NaN
        ELSE Num(sign * (100 * DigitsValue(ip) + DigitsValue(f2)))

\* ------------------------------------------------------- static endpoints
Clusters == {"mainnet-beta", "testnet", "devnet"}

\* clusterApiUrl(cluster) of @solana/web3.js
clusterApiUrl(c) == IF c = "testnet" THEN "https://api.testnet.solana.com"
                    ELSE IF c = "devnet" THEN "https://api.devnet.solana.com"
                    ELSE "https://api.mainnet-beta.solana.com/"

ENDPOINTS ==
    [c \in Clusters |->
        [name |-> c,
         endpointUrl |-> IF c = "mainnet-beta" THEN "https://solana-api.projectserum.com/"
                         ELSE clusterApiUrl(c)]]

DEFAULT_CLUSTER == IF envCluster = "" THEN "devnet" ELSE envCluster
DEFAULT_ENDPOINT == ENDPOINTS[DEFAULT_CLUSTER]
DEFAULT_SLIPPAGE == Num(100)

\* what a caller may pass to setEndpoint: any string; here the three static
\* URLs, a cluster name and a custom URL
EndpointInputs == {ENDPOINTS[c].endpointUrl : c \in Clusters}
                  \cup {"testnet", "http://localhost:8899"}

\* what a caller may pass to setSlippage
SlippageInputs == {Num(5), Num(100), Num(150), Num(-25), NaN}

\* ------------------------------------------------------ useLocalStorage
\* useLocalStorage(key, initial): the state starts as the persisted value, or
\* as `initial` when the key holds none
UseLocalStorageInitial(key, initial) ==
    IF storage[key] = <<>> THEN initial ELSE storage[key][1]

\* the setter persists the value under the key (and sets the state)
UseLocalStoragePersist(key, val) == [storage EXCEPT ![key] = <<val>>]

\* --------------------------------------------------------------- handles
\* new Connection(url, 'recent'): no subscription yet, both counters at 0
NewConnection(url) ==
    [url |-> url, commitment |-> "recent",
     acct |-> {}, slot |-> {}, acctCounter |-> 0, slotCounter |-> 0]

NoMemo == [set |-> FALSE, dep |-> "", value |-> 0]

\* a useMemo cell that never recomputes after its first value (deps of [])
MemoStaleOnlyFirst(memo, dep) == ~memo.set

\* useMemo(..., [endpoint]) recomputes on the first render and when the
\* dependency differs from the one of the last computation
MemoStale(memo, dep) == ~memo.set \/ memo.dep # dep

\* chain = ENDPOINTS[endpoint as Cluster] ?? DEFAULT_ENDPOINT; env = chain.name
\* (the record is keyed by cluster name and indexed by the endpoint string)
NetworkOf(ep) == IF ep \in DOMAIN ENDPOINTS THEN ENDPOINTS[ep].name
                 ELSE DEFAULT_ENDPOINT.name

\* One run of the component function with hook states ep and sl: the two
\* useMemo cells, the handles they create, and the context value.
RenderResult(ep, sl, mConn, mSend, hs) ==
    LET staleC == MemoStale(mConn, ep)
        hs1    == IF staleC THEN Append(hs, NewConnection(ep)) ELSE hs
        mc     == IF staleC THEN [set |-> TRUE, dep |-> ep, value |-> Len(hs1)] ELSE mConn
        staleS == MemoStale(mSend, ep)
        hs2    == IF staleS THEN Append(hs1, NewConnection(ep)) ELSE hs1
        ms     == IF staleS THEN [set |-> TRUE, dep |-> ep, value |-> Len(hs2)] ELSE mSend
    IN  [handles |-> hs2, memoConnection |-> mc, memoSendConnection |-> ms,
         ctx |-> [endpointUrl    |-> ep,
                  slippage       |-> ParseFloat(sl),
                  connection     |-> mc.value,
                  sendConnection |-> ms.value,
                  network        |-> NetworkOf(ep)]]

\* ---------------------------------------------------------------- effects
\* effect 1: connection.onAccountChange      effect 2: connection.onSlotChange
\* effect 3: sendConnection.onAccountChange  effect 4: sendConnection.onSlotChange
EffectIds == 1..4
EffectKind(i) == IF i \in {1, 3} THEN "acct" ELSE "slot"
EffectCounter(i) == IF i \in {1, 3} THEN "acctCounter" ELSE "slotCounter"

\* the handle effect i subscribes on, and its dependency
EffectConnection(i, c) == IF i \in {1, 2} THEN c.connection ELSE c.sendConnection

NoEffect == [active |-> FALSE, dep |-> 0, conn |-> 0, id |-> 0]

\* a cleanup that reads the handle of the latest render, not the captured one
CleanupTargetCurrent(e, i) == EffectConnection(i, ctx)

\* the cleanup closure removes the listener on the handle it captured
CleanupTarget(e, i) == e.conn

\* the effect runs after a commit when it has no live subscription (mount) or
\* its dependency is another handle than at its last run
EffectChanged(s, i, c) == ~s.effects[i].active \/ s.effects[i].dep # EffectConnection(i, c)

\* return () => { connection.remove...Listener(id) }   on s = [handles, effects, bad]
Destroy(s, i) ==
    LET e == s.effects[i]
        h == CleanupTarget(e, i)
        k == EffectKind(i)
    IN  IF ~e.active THEN s
        ELSE IF h = e.conn /\ e.id \in s.handles[h][k]
             THEN [s EXCEPT !.handles[h][k] = @ \ {e.id}, !.effects[i].active = FALSE]
             ELSE [s EXCEPT !.handles[h][k] = @ \ {e.id}, !.effects[i].active = FALSE,
                            !.bad = TRUE]

\* const id = connection.on...Change(...): the handle's next subscription id
Create(s, i, c) ==
    LET h  == EffectConnection(i, c)
        k  == EffectKind(i)
        n  == EffectCounter(i)
        id == s.handles[h][n] + 1
    IN  [s EXCEPT !.handles[h][k] = @ \cup {id},
                  !.handles[h][n] = id,
                  !.effects[i] = [active |-> TRUE, dep |-> h, conn |-> h, id |-> id]]

RECURSIVE DestroyAll(_, _, _)
DestroyAll(s, i, which) ==
    IF i > 4 THEN s
    ELSE DestroyAll(IF i \in which THEN Destroy(s, i) ELSE s, i + 1, which)

RECURSIVE CreateAll(_, _, _, _)
CreateAll(s, i, which, c) ==
    IF i > 4 THEN s
    ELSE CreateAll(IF i \in which THEN Create(s, i, c) ELSE s, i + 1, which, c)

EffectState == [handles |-> handles, effects |-> effects, bad |-> badCancel]

\* ------------------------------------------------------- provider actions
HandleBudget == Len(handles) + 2 <= 2 * MaxGenerations

InitProvider ==
    /\ envCluster \in {"", "mainnet-beta"}
    /\ storage = [connectionEndpts |-> <<>>, slippage |-> <<>>]
    /\ mounted = FALSE
    /\ endpoint = ""
    /\ slippage = <<>>
    /\ needRender = FALSE
    /\ memoConnection = NoMemo
    /\ memoSendConnection = NoMemo
    /\ handles = <<>>
    /\ effects = [i \in EffectIds |-> NoEffect]
    /\ effectsPending = FALSE
    /\ ctx = [endpointUrl |-> "", slippage |-> NaN, connection |-> 0,
              sendConnection |-> 0, network |-> ""]
    /\ badCancel = FALSE
    /\ callSuperseded = {}
    /\ renderSuperseded = {}
    /\ lastSetSlippage = <<>>

\* The provider mounts: the first run of the component function.
Mount ==
    /\ ~mounted
    /\ HandleBudget
    /\ LET ep == UseLocalStorageInitial("connectionEndpts", DEFAULT_ENDPOINT.endpointUrl)
           sl == UseLocalStorageInitial("slippage", NumberToString(DEFAULT_SLIPPAGE))
           r  == RenderResult(ep, sl, NoMemo, NoMemo, handles)
       IN  /\ endpoint' = ep
           /\ slippage' = sl
           /\ handles' = r.handles
           /\ memoConnection' = r.memoConnection
           /\ memoSendConnection' = r.memoSendConnection
           /\ ctx' = r.ctx
    /\ mounted' = TRUE
    /\ needRender' = FALSE
    /\ effectsPending' = TRUE
    /\ UNCHANGED <<envCluster, storage, effects, badCancel, callSuperseded,
                   renderSuperseded, lastSetSlippage>>

\* setEndpoint(u), from any consumer of the context
SetEndpoint(u) ==
    /\ mounted
    /\ HandleBudget
    /\ endpoint' = u
    /\ storage' = UseLocalStoragePersist("connectionEndpts", u)
    /\ needRender' = (needRender \/ u # endpoint)
    /\ callSuperseded' = IF u # endpoint
                         THEN callSuperseded \cup {ctx.connection, ctx.sendConnection}
                         ELSE callSuperseded
    /\ UNCHANGED <<envCluster, mounted, slippage, memoConnection, memoSendConnection,
                   handles, effects, effectsPending, ctx, badCancel,
                   renderSuperseded, lastSetSlippage>>

\* setSlippage: val => setSlippage(val.toString())
SetSlippage(v) ==
    /\ mounted
    /\ LET str == NumberToString(v)
       IN  /\ slippage' = str
           /\ storage' = UseLocalStoragePersist("slippage", str)
           /\ needRender' = (needRender \/ str # slippage)
    /\ lastSetSlippage' = <<v>>
    /\ UNCHANGED <<envCluster, mounted, endpoint, memoConnection, memoSendConnection,
                   handles, effects, effectsPending, ctx, badCancel, callSuperseded,
                   renderSuperseded>>

\* A re-render after state updates (React flushes the passive effects of the
\* previous commit before it renders again).
Render ==
    /\ mounted
    /\ needRender
    /\ ~effectsPending
    /\ LET r == RenderResult(endpoint, slippage, memoConnection, memoSendConnection, handles)
       IN  /\ handles' = r.handles
           /\ memoConnection' = r.memoConnection
           /\ memoSendConnection' = r.memoSendConnection
           /\ ctx' = r.ctx
    /\ renderSuperseded' = IF endpoint # ctx.endpointUrl
                           THEN renderSuperseded \cup {ctx.connection, ctx.sendConnection}
                           ELSE renderSuperseded
    /\ needRender' = FALSE
    /\ effectsPending' = TRUE
    /\ UNCHANGED <<envCluster, storage, mounted, endpoint, slippage, effects,
                   badCancel, callSuperseded, lastSetSlippage>>

\* The passive effects of the last commit: the cleanups of the effects whose
\* dependency changed, then their bodies.
FlushEffects ==
    /\ mounted
    /\ effectsPending
    /\ LET which == {i \in EffectIds : EffectChanged(EffectState, i, ctx)}
           s1    == DestroyAll(EffectState, 1, which)
           s2    == CreateAll(s1, 1, which, ctx)
       IN  /\ handles' = s2.handles
           /\ effects' = s2.effects
           /\ badCancel' = s2.bad
    /\ effectsPending' = FALSE
    /\ UNCHANGED <<envCluster, storage, mounted, endpoint, slippage, needRender,
                   memoConnection, memoSendConnection, ctx, callSuperseded,
                   renderSuperseded, lastSetSlippage>>

\* The provider unmounts: every live effect's cleanup runs; the persisted
\* values stay.
Unmount ==
    /\ mounted
    /\ ~effectsPending
    /\ LET s1 == DestroyAll(EffectState, 1, EffectIds)
       IN  /\ handles' = s1.handles
           /\ effects' = s1.effects
           /\ badCancel' = s1.bad
    /\ mounted' = FALSE
    /\ needRender' = FALSE
    /\ memoConnection' = NoMemo
    /\ memoSendConnection' = NoMemo
    /\ UNCHANGED <<envCluster, storage, endpoint, slippage, effectsPending, ctx,
                   callSuperseded, renderSuperseded, lastSetSlippage>>

\* rendering and effects have settled
Settled == mounted /\ ~needRender /\ ~effectsPending

\* ------------------------------------------------ getErrorForTransaction
\* the text the pattern /Error: (.*)/gm starts with
ErrorPrefix == <<"E", "r", "r", "o", "r", ":", " ">>

\* what `.` does not match
LineTerminators == {"\n", "\r"}

\* first position >= i of s holding a line terminator, or Len(s) + 1
RECURSIVE LineEnd(_, _)
LineEnd(s, i) == IF i > Len(s) \/ s[i] \in LineTerminators THEN i ELSE LineEnd(s, i + 1)

\* a lazy capture, (.*?): it matches nothing
CaptureEndLazy(s, i) == i

\* (.*) is greedy: from position i it takes everything up to the line's end
CaptureEnd(s, i) == LineEnd(s, i)

\* first position >= i of s where "Error: " starts, or 0
RECURSIVE FindPrefix(_, _)
FindPrefix(s, i) == IF i + Len(ErrorPrefix) - 1 > Len(s) THEN 0
                    ELSE IF StartsWithAt(s, i, ErrorPrefix) THEN i
                    ELSE FindPrefix(s, i + 1)

\* regex.exec(log) with regex.lastIndex = lastIndex (0-based, as in JS):
\* null, or the match with its index, its group 1 and the new lastIndex
RegexExec(log, lastIndex) ==
    LET p == FindPrefix(log, lastIndex + 1)
        e == CaptureEnd(log, p + Len(ErrorPrefix))
    IN  IF p = 0 THEN [found |-> FALSE, index |-> 0, group1 |-> <<>>, lastIndex |-> 0]
        ELSE [found |-> TRUE, index |-> p - 1,
              group1 |-> SubSeq(log, p + Len(ErrorPrefix), e - 1),
              lastIndex |-> e - 1]

\* while ((m = regex.exec(log)) !== null) { ...; errors.push(m[1]) }
RECURSIVE ExecLoop(_, _, _)
ExecLoop(log, lastIndex, acc) ==
    LET m == RegexExec(log, lastIndex)
    IN  IF ~m.found THEN acc
        ELSE ExecLoop(log,
                      IF m.index = m.lastIndex THEN m.lastIndex + 1 ELSE m.lastIndex,
                      Append(acc, m.group1))

RECURSIVE ForEachLog(_, _)
ForEachLog(logs, acc) ==
    IF logs = <<>> THEN acc
    ELSE ForEachLog(Tail(logs), ExecLoop(Head(logs), 0, acc))

\* A parsed transaction: null, or with meta null, or with meta.logMessages
\* null, or with the log messages.
ParsedTx(txNull, metaNull, logsNull, logs) ==
    [txNull |-> txNull, metaNull |-> metaNull, logsNull |-> logsNull, logs |-> logs]

\* the errors getErrorForTransaction returns for the transaction it fetched
ExtractErrors(tx) ==
    IF ~tx.txNull /\ ~tx.metaNull /\ ~tx.logsNull THEN ForEachLog(tx.logs, <<>>)
    ELSE <<>>

\* ---- inputs of the extraction
Pieces == <<ErrorPrefix, <<"x">>, <<"\n">>, <<"E", "r", "r", "o", "r", ":">>>>
Separator == Len(Pieces) + 1

\* token sequences: pieces and separators between log messages
TokenSeqs ==
    {t \in UNION {[1..n -> 1..Separator] : n \in 0..(MaxPieces + MaxLogs - 1)} :
        /\ Cardinality({i \in DOMAIN t : t[i] = Separator}) <= MaxLogs - 1
        /\ Cardinality({i \in DOMAIN t : t[i] # Separator}) <= MaxPieces}

RECURSIVE LogsOfTokens(_, _, _)
LogsOfTokens(t, i, cur) ==
    IF i > Len(t) THEN <<cur>>
    ELSE IF t[i] = Separator THEN <<cur>> \o LogsOfTokens(t, i + 1, <<>>)
    ELSE LogsOfTokens(t, i + 1, cur \o Pieces[t[i]])

\* lists of at most MaxLogs log messages built from at most MaxPieces pieces
LogLists == {<<>>} \cup {LogsOfTokens(t, 1, <<>>) : t \in TokenSeqs}

ParsedTxs ==
    {ParsedTx(TRUE, TRUE, TRUE, <<>>), ParsedTx(FALSE, TRUE, TRUE, <<>>),
     ParsedTx(FALSE, FALSE, TRUE, <<>>)}
    \cup {ParsedTx(FALSE, FALSE, FALSE, l) : l \in LogLists}

InitErr ==
    /\ parsedTx \in ParsedTxs
    /\ errors = <<>>

\* the extraction of getErrorForTransaction, applied to parsedTx
Extract ==
    /\ errors = <<>>
    /\ errors' = <<ExtractErrors(parsedTx)>>
    /\ UNCHANGED parsedTx

\* -------------------------------------------------------- sendTransaction
\* wallet argument: undefined/null, an adapter whose publicKey is null, or a
\* connected adapter
Wallets == {"absent", "nokey", "connected"}
WalletPublicKey == "walletPk"

\* additional signer Accounts and their public keys
Accounts == {"acc1", "acc2"}
PublicKeyOf(a) == IF a = "acc1" THEN "pk1" ELSE "pk2"

SignerLists == UNION {[1..n -> Accounts] : n \in 0..MaxSigners}
InstructionLists == {<<>>, <<"ix1">>, <<"ix1", "ix2">>}
Blockhashes == {"bhA", "bhB"}
TxIds == {"sigA", "sigB"}

\* value of confirmTransaction's answer: null, or {err}
NullStatus == [isNull |-> TRUE, err |-> Null]
Status(err) == [isNull |-> FALSE, err |-> err]

\* on-chain fate of a submitted transaction: its err (Null when it succeeds)
Fates == {Null, "InstructionError"}

\* answers of getParsedConfirmedTransaction in a sendTransaction run
SampleParsedTxs ==
    {ParsedTx(TRUE, TRUE, TRUE, <<>>),
     ParsedTx(FALSE, TRUE, TRUE, <<>>),
     ParsedTx(FALSE, FALSE, TRUE, <<>>),
     ParsedTx(FALSE, FALSE, FALSE, <<>>),
     ParsedTx(FALSE, FALSE, FALSE, <<<<"l", "o", "g">>, ErrorPrefix \o <<"x">>>>),
     ParsedTx(FALSE, FALSE, FALSE, <<ErrorPrefix \o <<"x">> \o ErrorPrefix \o <<"y">>>>)}

\* a call made on a collaborator
Event(op, arg) == [op |-> op, arg |-> arg, errors |-> <<>>]
NotifyEvent(errs, id) == [op |-> "notify", arg |-> <<"error", id>>, errors |-> errs]

NoTransaction == [instructions |-> <<>>, recentBlockhash |-> Null, signers |-> <<>>,
                  partialSigned |-> <<>>, walletSigned |-> FALSE]
NoOutcome == [kind |-> "none", value |-> "", error |-> "", txid |-> "", status |-> NullStatus]
NoArgs == [wallet |-> "absent", signers |-> <<>>, instructions |-> <<>>,
           awaitConfirmation |-> FALSE]

Returned(v) == [kind |-> "return", value |-> v, error |-> "", txid |-> "",
                status |-> NullStatus]
Thrown(e, id, st) == [kind |-> "throw", value |-> "", error |-> e, txid |-> id,
                      status |-> st]

\* a guard that only tests the wallet itself
HasPublicKeyWalletOnly(w) == w # "absent"

\* wallet?.publicKey
HasPublicKey(w) == w = "connected"

RECURSIVE MapPublicKey(_)
MapPublicKey(sg) == IF sg = <<>> THEN <<>>
                    ELSE <<PublicKeyOf(Head(sg))>> \o MapPublicKey(Tail(sg))

\* the wallet's key after the additional signers
SignerOrderWalletLast(sg) == MapPublicKey(sg) \o <<WalletPublicKey>>

\* transaction.setSigners(wallet.publicKey, ...signers.map(s => s.publicKey))
SignerOrder(sg) == <<WalletPublicKey>> \o MapPublicKey(sg)

\* options handed to sendRawTransaction
SendOptions == <<"skipPreflight:true", "commitment:singleGossip">>
\* options.commitment
OptionsCommitment == "singleGossip"

\* a confirmation that is always awaited
AwaitsConfirmationAlways(aw) == TRUE

\* if (awaitConfirmation)
AwaitsConfirmation(aw) == aw

\* a test of the status itself, not of its err
StatusIsNull(st) == st.isNull

\* status?.err
StatusErr(st) == ~st.isNull /\ st.err # Null

\* something else than the id sendRawTransaction answered
ReturnedBlockhash(id) == transaction.recentBlockhash

\* return txid
ReturnedValue(id) == id

InitSend ==
    /\ pc = "idle"
    /\ args = NoArgs
    /\ transaction = NoTransaction
    /\ trace = <<>>
    /\ txid = ""
    /\ status = NullStatus
    /\ outcome = NoOutcome
    /\ submitted = ""
    /\ chainFate = Null
    /\ fetched = ParsedTx(TRUE, TRUE, TRUE, <<>>)

\* sendTransaction(connection, wallet, instructions, signers, awaitConfirmation)
\* up to its first await
Call(w, sg, ix, aw) ==
    /\ pc = "idle"
    /\ args' = [wallet |-> w, signers |-> sg, instructions |-> ix,
                awaitConfirmation |-> aw]
    /\ IF ~HasPublicKey(w)
       THEN /\ pc' = "thrown"
            /\ outcome' = Thrown("Wallet is not connected", "", NullStatus)
            /\ UNCHANGED <<transaction, trace>>
       ELSE /\ pc' = "awaitBlockhash"
            /\ transaction' = [NoTransaction EXCEPT !.instructions = ix]
            /\ trace' = <<Event("getRecentBlockhash", <<"max">>)>>
            /\ UNCHANGED outcome
    /\ UNCHANGED <<txid, status, submitted, chainFate, fetched>>

\* getRecentBlockhash resolved: up to await wallet.signTransaction(transaction)
BlockhashResolved(bh) ==
    /\ pc = "awaitBlockhash"
    /\ LET keys == SignerOrder(args.signers)
           part == Len(args.signers) > 0
       IN  /\ transaction' = [transaction EXCEPT
                                 !.recentBlockhash = bh,
                                 !.signers = keys,
                                 !.partialSigned =
                                     IF part THEN MapPublicKey(args.signers) ELSE <<>>]
           /\ trace' = trace
                       \o <<Event("setSigners", keys)>>
                       \o (IF part THEN <<Event("partialSign", MapPublicKey(args.signers))>>
                           ELSE <<>>)
                       \o <<Event("signTransaction", <<>>)>>
    /\ pc' = "awaitSign"
    /\ UNCHANGED <<args, txid, status, outcome, submitted, chainFate, fetched>>

\* the wallet signed: serialize, up to await connection.sendRawTransaction
SignResolved ==
    /\ pc = "awaitSign"
    /\ transaction' = [transaction EXCEPT !.walletSigned = TRUE]
    /\ trace' = Append(trace, Event("sendRawTransaction", SendOptions))
    /\ pc' = "awaitSend"
    /\ UNCHANGED <<args, txid, status, outcome, submitted, chainFate, fetched>>

\* sendRawTransaction answered id: return it, or await the confirmation
SendResolved(id, fate) ==
    /\ pc = "awaitSend"
    /\ txid' = id
    /\ submitted' = id
    /\ chainFate' = fate
    /\ IF AwaitsConfirmation(args.awaitConfirmation)
       THEN /\ trace' = Append(trace, Event("confirmTransaction", <<id, OptionsCommitment>>))
            /\ pc' = "awaitConfirm"
            /\ UNCHANGED outcome
       ELSE /\ pc' = "returned"
            /\ outcome' = Returned(ReturnedValue(id))
            /\ UNCHANGED trace
    /\ UNCHANGED <<args, transaction, status, fetched>>

\* confirmTransaction answered {value: st}: return the id, or enter
\* getErrorForTransaction up to its first await
ConfirmResolved(st) ==
    /\ pc = "awaitConfirm"
    /\ st \in {NullStatus, Status(chainFate)}
    /\ status' = st
    /\ IF StatusErr(st)
       THEN /\ trace' = Append(trace, Event("confirmTransaction", <<txid, "max">>))
            /\ pc' = "awaitConfirmMax"
            /\ UNCHANGED outcome
       ELSE /\ pc' = "returned"
            /\ outcome' = Returned(ReturnedValue(txid))
            /\ UNCHANGED trace
    /\ UNCHANGED <<args, transaction, txid, submitted, chainFate, fetched>>

\* getErrorForTransaction: confirmTransaction(txid, 'max') resolved
ConfirmMaxResolved ==
    /\ pc = "awaitConfirmMax"
    /\ trace' = Append(trace, Event("getParsedConfirmedTransaction", <<txid>>))
    /\ pc' = "awaitParsed"
    /\ UNCHANGED <<args, transaction, txid, status, outcome, submitted, chainFate,
                   fetched>>

\* getParsedConfirmedTransaction answered tx: the errors, notify, throw
ParsedResolved(tx) ==
    /\ pc = "awaitParsed"
    /\ fetched' = tx
    /\ trace' = Append(trace, NotifyEvent(ExtractErrors(tx), txid))
    /\ outcome' = Thrown("Raw transaction failed", txid, status)
    /\ pc' = "thrown"
    /\ UNCHANGED <<args, transaction, txid, status, submitted, chainFate>>

AwaitStates == {"awaitBlockhash", "awaitSign", "awaitSend", "awaitConfirm",
                "awaitConfirmMax", "awaitParsed"}

\* the awaited promise rejects (the transport fails, the user declines to
\* sign): nothing catches it, the call fails with it
Rejected ==
    /\ pc \in AwaitStates
    /\ outcome' = Thrown("rejected", "", NullStatus)
    /\ pc' = "thrown"
    /\ UNCHANGED <<args, transaction, trace, txid, status, submitted, chainFate,
                   fetched>>

\* the call is over; the next one starts from scratch
Finish ==
    /\ pc \in {"returned", "thrown"}
    /\ pc' = "idle"
    /\ args' = NoArgs
    /\ transaction' = NoTransaction
    /\ trace' = <<>>
    /\ txid' = ""
    /\ status' = NullStatus
    /\ outcome' = NoOutcome
    /\ submitted' = ""
    /\ chainFate' = Null
    /\ fetched' = ParsedTx(TRUE, TRUE, TRUE, <<>>)

\* --------------------------------------------------------- specifications
IdleProvider ==
    /\ envCluster = ""
    /\ storage = [connectionEndpts |-> <<>>, slippage |-> <<>>]
    /\ mounted = FALSE
    /\ endpoint = ""
    /\ slippage = <<>>
    /\ needRender = FALSE
    /\ memoConnection = NoMemo
    /\ memoSendConnection = NoMemo
    /\ handles = <<>>
    /\ effects = [i \in EffectIds |-> NoEffect]
    /\ effectsPending = FALSE
    /\ ctx = [endpointUrl |-> "", slippage |-> NaN, connection |-> 0,
              sendConnection |-> 0, network |-> ""]
    /\ badCancel = FALSE
    /\ callSuperseded = {}
    /\ renderSuperseded = {}
    /\ lastSetSlippage = <<>>

IdleErr ==
    /\ parsedTx = ParsedTx(TRUE, TRUE, TRUE, <<>>)
    /\ errors = <<>>

\* the provider
NextProvider ==
    \/ Mount /\ UNCHANGED <<sendVars, errVars>>
    \/ (\E u \in EndpointInputs : SetEndpoint(u)) /\ UNCHANGED <<sendVars, errVars>>
    \/ (\E v \in SlippageInputs : SetSlippage(v)) /\ UNCHANGED <<sendVars, errVars>>
    \/ Render /\ UNCHANGED <<sendVars, errVars>>
    \/ FlushEffects /\ UNCHANGED <<sendVars, errVars>>
    \/ Unmount /\ UNCHANGED <<sendVars, errVars>>

InitProviderSpec == InitProvider /\ InitSend /\ IdleErr

SpecProvider == InitProviderSpec /\ [][NextProvider]_vars

\* sendTransaction
NextSend ==
    \/ (\E w \in Wallets, sg \in SignerLists, ix \in InstructionLists, aw \in BOOLEAN :
            Call(w, sg, ix, aw)) /\ UNCHANGED <<providerVars, errVars>>
    \/ (\E bh \in Blockhashes : BlockhashResolved(bh)) /\ UNCHANGED <<providerVars, errVars>>
    \/ SignResolved /\ UNCHANGED <<providerVars, errVars>>
    \/ (\E id \in TxIds, fate \in Fates : SendResolved(id, fate))
            /\ UNCHANGED <<providerVars, errVars>>
    \/ (\E st \in {NullStatus} \cup {Status(f) : f \in Fates} : ConfirmResolved(st))
            /\ UNCHANGED <<providerVars, errVars>>
    \/ ConfirmMaxResolved /\ UNCHANGED <<providerVars, errVars>>
    \/ (\E tx \in SampleParsedTxs : ParsedResolved(tx)) /\ UNCHANGED <<providerVars, errVars>>
    \/ Rejected /\ UNCHANGED <<providerVars, errVars>>
    \/ Finish /\ UNCHANGED <<providerVars, errVars>>

InitSendSpec == IdleProvider /\ InitSend /\ IdleErr

SpecSend == InitSendSpec /\ [][NextSend]_vars

\* the extraction alone, on every bounded parsed transaction
NextErr == Extract /\ UNCHANGED <<providerVars, sendVars>>

InitErrSpec == IdleProvider /\ InitSend /\ InitErr

SpecErr == InitErrSpec /\ [][NextErr]_vars

\* ================================================================ claims
\* ---- sendTransaction (SpecSend)

\* C1: a call whose wallet is absent or has no public key fails with the
\* 'Wallet is not connected' error, and by then no call was made on the
\* connection, on the wallet or on notify, and nothing was signed.
C1_NoKeyFailsBeforeAnyCall ==
    (pc # "idle" /\ args.wallet \in {"absent", "nokey"}) =>
        /\ pc = "thrown"
        /\ outcome.kind = "throw"
        /\ outcome.error = "Wallet is not connected"
        /\ trace = <<>>
        /\ transaction = NoTransaction
        /\ submitted = ""

C1_Witness ==
    pc = "thrown" /\ args.wallet = "nokey" /\ Len(args.signers) > 0 /\ trace = <<>>

\* C2: whenever the call returns a value, the value is the id that
\* sendRawTransaction answered in this call, with the confirmation awaited
\* (and reporting no error) or not.
C2_ReturnsSubmittedId ==
    /\ (pc = "returned") <=> (outcome.kind = "return")
    /\ pc = "returned" =>
        /\ submitted \in TxIds
        /\ outcome.value = submitted
        /\ Cardinality({i \in DOMAIN trace : trace[i].op = "sendRawTransaction"}) = 1

C2_Witness ==
    /\ pc = "returned"
    /\ args.awaitConfirmation
    /\ ~status.isNull /\ status.err = Null
    /\ outcome.value = "sigB"

\* the reported status carries an error
ReportsError == ~status.isNull /\ status.err # Null

NotifyCount == Cardinality({i \in DOMAIN trace : trace[i].op = "notify"})

\* C6 as stated: once the awaited confirmation reports an error, the call
\* never returns an id and ends with exactly one notification followed by the
\* error that carries the transaction id and the raw status.
C6_AlwaysNotifiesThenFails ==
    (args.awaitConfirmation /\ ReportsError) =>
        /\ pc # "returned"
        /\ pc = "thrown" =>
            /\ NotifyCount = 1
            /\ outcome.error = "Raw transaction failed"
            /\ outcome.txid = submitted
            /\ outcome.status = status

\* C6 amended: once the awaited confirmation reports an error the call never
\* returns an id; it ends either, the two queries of getErrorForTransaction
\* having resolved, with exactly one notification (the last call made,
\* carrying the errors extracted from the fetched transaction) and then the
\* error with the transaction id and the raw status, or, one of the two
\* queries having rejected, with that rejection and no notification.
C6_NotifiesThenFailsUnlessRejected ==
    /\ (args.awaitConfirmation /\ ReportsError) =>
        /\ pc \in {"awaitConfirmMax", "awaitParsed", "thrown"}
        /\ outcome.kind # "return"
        /\ pc # "thrown" => NotifyCount = 0
        /\ pc = "thrown" =>
            \/ /\ outcome.error = "Raw transaction failed"
               /\ outcome.txid = submitted
               /\ outcome.status = status
               /\ NotifyCount = 1
               /\ trace[Len(trace)] = NotifyEvent(ExtractErrors(fetched), submitted)
            \/ /\ outcome.error = "rejected"
               /\ NotifyCount = 0
    /\ NotifyCount > 0 => (args.awaitConfirmation /\ ReportsError /\ pc = "thrown")

C6_Witness ==
    /\ pc = "thrown"
    /\ args.awaitConfirmation
    /\ ReportsError
    /\ outcome.txid = "sigA"
    /\ NotifyCount = 1
    /\ Len(trace[Len(trace)].errors) = 1

\* the steps of a run up to the submission, for the arguments of the call
CoreSteps ==
    <<Event("getRecentBlockhash", <<"max">>),
      Event("setSigners", <<WalletPublicKey>> \o MapPublicKey(args.signers))>>
    \o (IF Len(args.signers) > 0
        THEN <<Event("partialSign", MapPublicKey(args.signers))>> ELSE <<>>)
    \o <<Event("signTransaction", <<>>),
         Event("sendRawTransaction", <<"skipPreflight:true", "commitment:singleGossip">>)>>

\* C7: with a public key present, the calls made so far are always a prefix
\* of: fetch the blockhash, set the signers (wallet first, then the
\* additional signers in order), partial-sign (only with additional
\* signers), request the wallet's signature, submit once with preflight
\* disabled; confirmations and what follows come only after the submission,
\* and a call that got past the submission skipped none of the steps.
C7_StepsInOrder ==
    (pc # "idle" /\ args.wallet = "connected") =>
        LET n == Len(trace)
            c == Len(CoreSteps)
        IN  /\ n <= c => trace = SubSeq(CoreSteps, 1, n)
            /\ n > c =>
                /\ SubSeq(trace, 1, c) = CoreSteps
                /\ \A i \in (c + 1)..n :
                      trace[i].op \in {"confirmTransaction",
                                       "getParsedConfirmedTransaction", "notify"}
            /\ pc = "awaitBlockhash" => n = 1
            /\ pc = "awaitSign" => n = c - 1
            /\ pc = "awaitSend" => n = c
            /\ pc \in {"awaitConfirm", "awaitConfirmMax", "awaitParsed", "returned"} => n >= c
            /\ n >= c =>
                /\ transaction.signers = <<WalletPublicKey>> \o MapPublicKey(args.signers)
                /\ transaction.partialSigned = MapPublicKey(args.signers)
                /\ transaction.walletSigned
                /\ transaction.recentBlockhash \in Blockhashes

C7_Witness ==
    /\ pc = "returned"
    /\ args.awaitConfirmation
    /\ Len(args.signers) = 2
    /\ args.signers[1] # args.signers[2]
    /\ Len(trace) = Len(CoreSteps) + 1

ConfirmationOps == {"confirmTransaction", "getParsedConfirmedTransaction", "notify"}

\* C9: with awaitConfirmation false the call returns the id right after the
\* submission, whatever happens to the transaction on chain, without any
\* confirmation, log query or notification; the failed-confirmation path is
\* entered only with awaitConfirmation true and a status that carries an
\* error.
C9_NoConfirmationUnlessAwaited ==
    /\ (pc # "idle" /\ ~args.awaitConfirmation) =>
        /\ \A i \in DOMAIN trace : trace[i].op \notin ConfirmationOps
        /\ pc \notin {"awaitConfirm", "awaitConfirmMax", "awaitParsed"}
        /\ submitted # "" => (pc = "returned" /\ outcome = Returned(submitted))
    /\ (\/ pc \in {"awaitConfirmMax", "awaitParsed"}
        \/ \E i \in DOMAIN trace :
              \/ trace[i].op \in {"getParsedConfirmedTransaction", "notify"}
              \/ trace[i].op = "confirmTransaction" /\ trace[i].arg[2] = "max")
       => (args.awaitConfirmation /\ ReportsError)

C9_Witness ==
    /\ pc = "returned"
    /\ ~args.awaitConfirmation
    /\ chainFate = "InstructionError"
    /\ outcome.value = submitted
    /\ trace[Len(trace)].op = "sendRawTransaction"

\* ---- getErrorForTransaction's extraction (SpecErr)

\* positions of s where "Error: " starts
Occurrences(s) == {p \in 1..Len(s) : StartsWithAt(s, p, ErrorPrefix)}

RECURSIVE TotalOccurrences(_)
TotalOccurrences(logs) ==
    IF logs = <<>> THEN 0
    ELSE Cardinality(Occurrences(Head(logs))) + TotalOccurrences(Tail(logs))

LogsOf(tx) == IF tx.txNull \/ tx.metaNull \/ tx.logsNull THEN <<>> ELSE tx.logs

\* C3 as stated: the returned list holds exactly one entry for every
\* occurrence of "Error: " in the log lines.
C3_OneEntryPerOccurrence ==
    errors # <<>> => Len(errors[1]) = TotalOccurrences(LogsOf(parsedTx))

\* position after the last line terminator of s before position p
LineStart(s, p) ==
    LET ts == {q \in 1..(p - 1) : s[q] \in LineTerminators}
    IN  IF ts = {} THEN 1 ELSE (CHOOSE q \in ts : \A r \in ts : r <= q) + 1

\* the occurrences that are the first of their line
FirstInLine(s) ==
    {p \in Occurrences(s) : \A q \in Occurrences(s) : q < p => q < LineStart(s, p)}

\* the text after occurrence p up to the end of its line
RestOfLine(s, p) ==
    LET after == p + Len(ErrorPrefix)
        ends  == {q \in after..Len(s) : s[q] \in LineTerminators}
        e     == IF ends = {} THEN Len(s) + 1 ELSE CHOOSE q \in ends : \A r \in ends : q <= r
    IN  SubSeq(s, after, e - 1)

RECURSIVE EntriesFrom(_, _)
EntriesFrom(s, p) ==
    IF p > Len(s) THEN <<>>
    ELSE (IF p \in FirstInLine(s) THEN <<RestOfLine(s, p)>> ELSE <<>>)
         \o EntriesFrom(s, p + 1)

RECURSIVE EntriesOfLogs(_)
EntriesOfLogs(logs) ==
    IF logs = <<>> THEN <<>>
    ELSE EntriesFrom(Head(logs), 1) \o EntriesOfLogs(Tail(logs))

\* C3 amended: the returned list holds, in log order and line order, one
\* entry for every line of a log message that contains "Error: ": the text
\* from after the first "Error: " of that line to the end of the line (later
\* occurrences in the same line are part of that entry, not entries of their
\* own); it holds nothing else, and is empty with the transaction, its meta
\* or its log messages absent.
C3_OneEntryPerLine ==
    errors # <<>> => errors[1] = EntriesOfLogs(LogsOf(parsedTx))

C3_Witness ==
    /\ errors # <<>>
    /\ ~parsedTx.txNull /\ ~parsedTx.metaNull /\ ~parsedTx.logsNull
    /\ Len(parsedTx.logs) = 1
    /\ Cardinality(Occurrences(parsedTx.logs[1])) = 2
    /\ errors[1] = <<<<"x">> \o ErrorPrefix>>

\* ---- the provider (SpecProvider)

Current == {ctx.connection, ctx.sendConnection}

ExactlyOneOfEach(h) ==
    Cardinality(handles[h].acct) = 1 /\ Cardinality(handles[h].slot) = 1

\* C4 as stated: once settled, every setEndpoint call that changed the
\* endpoint URL has replaced both handles, and each current handle holds
\* exactly one account-change and one slot-change subscription.
C4_EveryChangingCallReplaces ==
    Settled =>
        /\ Current \cap callSuperseded = {}
        /\ \A h \in Current : ExactlyOneOfEach(h)

\* C4 amended: once settled, the two handles are distinct, both built for
\* the current endpoint URL, every render that saw another endpoint URL than
\* the render before it has replaced both by newly created handles (calls
\* batched before one render that leave the rendered URL unchanged replace
\* nothing), and each current handle holds exactly one account-change and
\* one slot-change subscription.
C4_EveryRenderedChangeReplaces ==
    Settled =>
        /\ ctx.connection # ctx.sendConnection
        /\ ctx.endpointUrl = endpoint
        /\ \A h \in Current : handles[h].url = endpoint
        /\ Current \cap renderSuperseded = {}
        /\ \A h \in Current : ExactlyOneOfEach(h)

C4_Witness ==
    /\ Settled
    /\ renderSuperseded # {}
    /\ Len(handles) >= 4
    /\ handles[ctx.connection].url = "https://api.testnet.solana.com"
    /\ handles[1].url # handles[ctx.connection].url

\* the decimal text of the numbers setSlippage is called with
DecimalText(v) ==
    IF v = Num(5) THEN <<"0", ".", "0", "5">>
    ELSE IF v = Num(100) THEN <<"1">>
    ELSE IF v = Num(150) THEN <<"1", ".", "5">>
    ELSE IF v = Num(-25) THEN <<"-", "0", ".", "2", "5">>
    ELSE <<"N", "a", "N">>

\* C5: after setSlippage(v) the persisted string is v's string form and,
\* once rendered, the exposed slippage is v; before any setSlippage call
\* nothing is persisted and the exposed slippage is the default 1.
C5_SlippageReadsBackPersisted ==
    /\ lastSetSlippage = <<>> =>
        /\ storage.slippage = <<>>
        /\ (mounted /\ ~needRender) => ctx.slippage = Num(100)
    /\ lastSetSlippage # <<>> =>
        /\ storage.slippage = <<DecimalText(lastSetSlippage[1])>>
        /\ (mounted /\ ~needRender) => ctx.slippage = lastSetSlippage[1]

C5_Witness ==
    /\ Settled
    /\ lastSetSlippage = <<Num(150)>>
    /\ ctx.slippage = Num(150)
    /\ storage.slippage = <<<<"1", ".", "5">>>>

NoSubscription(h) == handles[h].acct = {} /\ handles[h].slot = {}

\* C8: no listener is removed twice or on another handle than its own; a
\* live effect's subscription is held by the handle it was made on under
\* the id its creation returned; once settled every replaced handle holds no
\* subscription, and after unmount no handle holds any.
C8_SubscriptionsNeverLeak ==
    /\ ~badCancel
    /\ \A i \in EffectIds :
          effects[i].active => effects[i].id \in handles[effects[i].conn][EffectKind(i)]
    /\ Settled => \A h \in DOMAIN handles : h \notin Current => NoSubscription(h)
    /\ ~mounted => \A h \in DOMAIN handles : NoSubscription(h)

C8_Witness ==
    /\ ~mounted
    /\ Len(handles) = 4
    /\ \A h \in DOMAIN handles :
          NoSubscription(h) /\ handles[h].acctCounter = 1 /\ handles[h].slotCounter = 1

\* C10 as stated: once settled, when the exposed endpoint URL is the URL of
\* a static descriptor, the exposed network is that descriptor's name and
\* both handles are built for that URL.
C10_NetworkAgreesWithEndpoint ==
    Settled =>
        \A c \in Clusters :
            ctx.endpointUrl = ENDPOINTS[c].endpointUrl =>
                /\ ctx.network = c
                /\ \A h \in Current : handles[h].url = ENDPOINTS[c].endpointUrl

====
